---- MODULE Spec2Model ----
(***************************************************************************)
(* A model of the crowdspark backend (src/index.js): the Express handlers  *)
(* for POST /campaigns, POST /transactions and the four /admin routes, the *)
(* Socket.IO "join" handler, and the three Mongoose collections they read  *)
(* and write.                                                              *)
(*                                                                         *)
(* Every handler is an async function.  The code between two awaits runs   *)
(* without interruption, and every awaited store operation is atomic in    *)
(* the store, so one action of the model is: one store operation together  *)
(* with the synchronous code that follows it up to the next await.  Any    *)
(* other handler may run between two actions of the same request.          *)
(*                                                                         *)
(* Fields no handler modelled here reads after writing them (description,  *)
(* goalAmount, deadline, category, image, status of a campaign; message of *)
(* a transaction) are left out of the records.                             *)
(***************************************************************************)
EXTENDS Integers, Sequences, FiniteSets

\* ---------------------------------------------------------------- bounds

\* Number of HTTP requests served in one run of the model.
MaxReq == 3

\* Number of Socket.IO events ("connection", "join") in one run.
MaxSocketEvents == 3

\* Registered users.  The session token carries {id, username, role}.
UserIds == {1, 2, 3}

\* Contribution amounts (req.body.amount), positive.
Amounts == {1, 2}

\* Campaign titles (req.body.title).
Titles == {"T1", "T2"}

\* Socket.IO clients.
Sockets == {"s1", "s2"}

\* ----------------------------------------------------------------- state

VARIABLES
  User,         \* the User collection: _id -> [backedCampaigns]
  Campaign,     \* the Campaign collection: _id -> [title, owner, raisedAmount, supporters]
  Transaction,  \* the Transaction collection, in order of insertion
  campaignIds,  \* number of Campaign _ids generated so far
  uuidCalls,    \* number of uuidv4() calls so far
  reqs,         \* the requests received so far, each with its handler's position and locals
  rooms,        \* Socket.IO: connected socket -> the rooms it is in
  delivered,    \* Socket.IO: connected socket -> the events it was sent
  joins         \* history: connected socket -> the user ids it sent in "join" events

vars == <<User, Campaign, Transaction, campaignIds, uuidCalls, reqs, rooms, delivered, joins>>

\* ------------------------------------------------------------ identities

\* The role the session token of user u carries.
Role(u) == CASE u = 1 -> "backer" [] u = 2 -> "campaignOwner" [] OTHER -> "admin"

Username(u) == CASE u = 1 -> "alice" [] u = 2 -> "bob" [] OTHER -> "root"

\* ---------------------------------------------------------- pure helpers

\* Array.prototype.includes on a (Mongoose) array.
Includes(arr, x) == \E i \in 1..Len(arr) : arr[i] = x

\* Number of occurrences of x in arr.
RECURSIVE Count(_, _)
Count(arr, x) ==
  IF arr = <<>> THEN 0
  ELSE (IF Head(arr) = x THEN 1 ELSE 0) + Count(Tail(arr), x)

\* uuidv4(): the n-th call returns a value no earlier call returned.
uuidv4(n) == n + 1

\* A handler that stores the amount instead of adding it.
NewRaisedAmountOverwrite(raisedAmount, amount) == amount

\* (campaign.raisedAmount || 0) + amount
NewRaisedAmount(raisedAmount, amount) ==
  (IF raisedAmount = 0 THEN 0 ELSE raisedAmount) + amount

\* ------------------------------------------------------------- requests

\* The campaign document a handler holds between findById and save():
\* raisedAmount and owner as loaded (raisedAmount then reassigned), the value
\* of raisedAmount that was loaded, and whether supporters.push() was called.
NoDoc == [raisedAmount |-> 0, loaded |-> 0, pushed |-> FALSE, owner |-> 0]

\* A request just received: req.user.id, the id in the body or the path,
\* the title and the amount of the body; pc is the store operation the
\* handler awaits, status the HTTP status once it responded.  found, saved
\* and failedAt record what happened to it, for the properties.
NewReq(route, user, id, title, amount) ==
  [route |-> route, user |-> user, id |-> id, title |-> title, amount |-> amount,
   pc |-> "start", status |-> 0, doc |-> NoDoc,
   found |-> FALSE, saved |-> FALSE, failedAt |-> "none"]

\* res.status(code).json(...): the handler is over.
Respond(rq, code) == [rq EXCEPT !.pc = "done", !.status = code]

\* catch (err) { res.status(500).json(...) }: no store operation is undone.
Catch(rq) == [Respond(rq, 500) EXCEPT !.failedAt = rq.pc]

InFlight(r) == r \in 1..Len(reqs) /\ reqs[r].pc # "done"

CanReceive == Len(reqs) < MaxReq

\* Ids a client may send: every _id generated so far and one never generated.
KnownIds == 1..(campaignIds + 1)

\* --------------------------------------------------------- notifications

\* io.emit(event, payload): to every connected socket.
Broadcast(ev) == [s \in DOMAIN delivered |-> delivered[s] \cup {ev}]

\* io.to(room).emit(event, payload): to the sockets that are in the room.
EmitTo(room, ev) ==
  [s \in DOMAIN delivered |->
     IF room \in rooms[s] THEN delivered[s] \cup {ev} ELSE delivered[s]]

\* -------------------------------------------------------- POST /campaigns

\* The handler up to its first store operation and that operation's reply:
\* the role gate, the required fields and the deadline (valid stands for
\* both checks), then Campaign.findOne({title, owner}).
PostCampaignsFindOne(u, title, valid, ok) ==
  /\ CanReceive
  /\ LET rq == [NewReq("POST /campaigns", u, 0, title, 0) EXCEPT !.pc = "findOne"]
         exists == \E c \in DOMAIN Campaign :
                     Campaign[c].title = title /\ Campaign[c].owner = u
         out == IF Role(u) \notin {"campaignOwner", "admin"} THEN Respond(rq, 403)
                ELSE IF ~valid THEN Respond(rq, 400)
                ELSE IF ~ok THEN Catch(rq)
                ELSE IF exists THEN Respond(rq, 409)
                ELSE [rq EXCEPT !.pc = "create"]
     IN reqs' = Append(reqs, out)
  /\ UNCHANGED <<User, Campaign, Transaction, campaignIds, uuidCalls, rooms, delivered, joins>>

\* The Campaign collection after Campaign.create(doc): the record is
\* inserted under a new _id.  The collection has no unique index on
\* (owner, title): the handler's findOne is the only uniqueness check.
CampaignCreate(coll, id, doc) ==
  [c \in DOMAIN coll \cup {id} |-> IF c = id THEN doc ELSE coll[c]]

\* Campaign.create({..., raisedAmount: 0, owner: req.user.id}), then the
\* "new_campaign" broadcast and the 201.
PostCampaignsCreate(r) ==
  /\ InFlight(r) /\ reqs[r].pc = "create"
  /\ LET id == campaignIds + 1
         doc == [title |-> reqs[r].title, owner |-> reqs[r].user,
                 raisedAmount |-> 0, supporters |-> <<>>]
     IN /\ Campaign' = CampaignCreate(Campaign, id, doc)
        /\ campaignIds' = id
        /\ delivered' = Broadcast([event |-> "new_campaign", to |-> 0,
                                   campaign |-> doc.title, from |-> reqs[r].user,
                                   amount |-> 0])
  /\ reqs' = [reqs EXCEPT ![r] = Respond(@, 201)]
  /\ UNCHANGED <<User, Transaction, uuidCalls, rooms, joins>>

\* ------------------------------------------------------ POST /transactions

\* Campaign.findById(campaignId), the 404 when it is absent, and then the
\* in-memory update of the loaded document: raisedAmount, supporters.
PostTransactionsFindById(u, cid, amount, ok) ==
  /\ CanReceive
  /\ LET rq == [NewReq("POST /transactions", u, cid, "", amount) EXCEPT !.pc = "findById"]
         out == IF ~ok THEN Catch(rq)
                ELSE IF cid \notin DOMAIN Campaign THEN Respond(rq, 404)
                ELSE [rq EXCEPT
                        !.pc = "save", !.found = TRUE,
                        !.doc = [raisedAmount |->
                                   NewRaisedAmount(Campaign[cid].raisedAmount, amount),
                                 loaded |-> Campaign[cid].raisedAmount,
                                 pushed |-> ~Includes(Campaign[cid].supporters, u),
                                 owner |-> Campaign[cid].owner]]
     IN reqs' = Append(reqs, out)
  /\ UNCHANGED <<User, Campaign, Transaction, campaignIds, uuidCalls, rooms, delivered, joins>>

\* A save that adds the request's amount to the stored raisedAmount (an
\* atomic $inc) instead of storing the value computed from the loaded one.
SaveCampaignInc(stored, rq) ==
  [stored EXCEPT
     !.raisedAmount = @ + (rq.doc.raisedAmount - rq.doc.loaded),
     !.supporters = IF rq.doc.pushed THEN Append(@, rq.user) ELSE @]

\* What document.save() writes for the loaded campaign document: Mongoose
\* sends the changes made to the document, $set for the reassigned
\* raisedAmount and $push for the element pushed onto supporters, and the
\* store applies them to the stored record.  (The schema's defaults: no
\* optimistic concurrency, under which a concurrent save would be rejected.)
SaveCampaign(stored, rq) ==
  [stored EXCEPT
     !.raisedAmount = rq.doc.raisedAmount,
     !.supporters = IF rq.doc.pushed THEN Append(@, rq.user) ELSE @]

\* await campaign.save().  save() rejects when the record is gone.
PostTransactionsSave(r) ==
  /\ InFlight(r) /\ reqs[r].pc = "save"
  /\ LET cid == reqs[r].id
     IN IF cid \in DOMAIN Campaign
        THEN /\ Campaign' = [Campaign EXCEPT ![cid] = SaveCampaign(@, reqs[r])]
             /\ reqs' = [reqs EXCEPT ![r].pc = "createTx", ![r].saved = TRUE]
        ELSE /\ reqs' = [reqs EXCEPT ![r] = Catch(@)]
             /\ UNCHANGED Campaign
  /\ UNCHANGED <<User, Transaction, campaignIds, uuidCalls, rooms, delivered, joins>>

\* await Transaction.create({..., status: "completed", paymentId: uuidv4()})
PostTransactionsCreate(r) ==
  /\ InFlight(r) /\ reqs[r].pc = "createTx"
  /\ Transaction' = Append(Transaction,
       [user |-> reqs[r].user, campaign |-> reqs[r].id, amount |-> reqs[r].amount,
        provider |-> Username(reqs[r].user), status |-> "completed",
        paymentId |-> uuidv4(uuidCalls), req |-> r])
  /\ uuidCalls' = uuidCalls + 1
  /\ reqs' = [reqs EXCEPT ![r].pc = "findUser"]
  /\ UNCHANGED <<User, Campaign, campaignIds, rooms, delivered, joins>>

\* The end of the handler: the "new_backing" emit to the room named by the
\* loaded campaign's owner, and the 201.
Finish(r) ==
  /\ delivered' = EmitTo(reqs[r].doc.owner,
                         [event |-> "new_backing", to |-> reqs[r].doc.owner,
                          campaign |-> reqs[r].id, from |-> reqs[r].user,
                          amount |-> reqs[r].amount])
  /\ reqs' = [reqs EXCEPT ![r] = Respond(@, 201)]

\* await User.findById(req.user.id); a user that is absent, or that already
\* lists the campaign, is not written and the handler runs to its end.
PostTransactionsFindUser(r) ==
  /\ InFlight(r) /\ reqs[r].pc = "findUser"
  /\ LET u == reqs[r].user
     IN IF u \in DOMAIN User /\ ~Includes(User[u].backedCampaigns, reqs[r].id)
        THEN /\ reqs' = [reqs EXCEPT ![r].pc = "saveUser"]
             /\ UNCHANGED delivered
        ELSE Finish(r)
  /\ UNCHANGED <<User, Campaign, Transaction, campaignIds, uuidCalls, rooms, joins>>

\* What user.save() writes: the $push of the campaign id.
SaveUser(stored, rq) ==
  [stored EXCEPT !.backedCampaigns = Append(@, rq.id)]

\* await user.save(), then the end of the handler.
PostTransactionsSaveUser(r) ==
  /\ InFlight(r) /\ reqs[r].pc = "saveUser"
  /\ LET u == reqs[r].user
     IN IF u \in DOMAIN User
        THEN /\ User' = [User EXCEPT ![u] = SaveUser(@, reqs[r])]
             /\ Finish(r)
        ELSE /\ reqs' = [reqs EXCEPT ![r] = Catch(@)]
             /\ UNCHANGED <<User, delivered>>
  /\ UNCHANGED <<Campaign, Transaction, campaignIds, uuidCalls, rooms, joins>>

\* A handler in which a rejected campaign.save() is not caught by the
\* handler's try block (the call is not awaited): it goes on to
\* Transaction.create.
StoreErrorSwallowed(r) ==
  /\ InFlight(r)
  /\ reqs' = [reqs EXCEPT ![r] =
                IF @.pc = "save"
                THEN [@ EXCEPT !.pc = "createTx", !.failedAt = "save"]
                ELSE Catch(@)]
  /\ UNCHANGED <<User, Campaign, Transaction, campaignIds, uuidCalls, rooms, delivered, joins>>

\* A catch block that compensates: it takes the request's amount back out
\* of the campaign it had saved.
StoreErrorRollback(r) ==
  /\ InFlight(r)
  /\ reqs' = [reqs EXCEPT ![r] = Catch(@)]
  /\ Campaign' = IF reqs[r].saved /\ reqs[r].id \in DOMAIN Campaign
                 THEN [Campaign EXCEPT ![reqs[r].id].raisedAmount = @ - reqs[r].amount]
                 ELSE Campaign
  /\ UNCHANGED <<User, Transaction, campaignIds, uuidCalls, rooms, delivered, joins>>

\* The store operation a handler awaits rejects (the store is unreachable,
\* a validator fails): the handler's catch block answers 500.
StoreError(r) ==
  /\ InFlight(r)
  /\ reqs' = [reqs EXCEPT ![r] = Catch(@)]
  /\ UNCHANGED <<User, Campaign, Transaction, campaignIds, uuidCalls, rooms, delivered, joins>>

\* ------------------------------------------------------------ /admin/...

\* A gate that turns away backers only.
ForbiddenBackersOnly(u) == Role(u) = "backer"

\* if (req.user.role !== "admin") return res.status(403).json({message: "Forbidden"})
Forbidden(u) == Role(u) # "admin"

\* GET /admin/users: User.find({}, "-password")
AdminGetUsers(u, ok) ==
  /\ CanReceive
  /\ LET rq == [NewReq("GET /admin/users", u, 0, "", 0) EXCEPT !.pc = "find"]
     IN reqs' = Append(reqs, IF Forbidden(u) THEN Respond(rq, 403)
                             ELSE IF ~ok THEN Catch(rq) ELSE Respond(rq, 200))
  /\ UNCHANGED <<User, Campaign, Transaction, campaignIds, uuidCalls, rooms, delivered, joins>>

\* DELETE /admin/users/:id: User.findByIdAndDelete(req.params.id)
AdminDeleteUser(u, id, ok) ==
  /\ CanReceive
  /\ LET rq == [NewReq("DELETE /admin/users/:id", u, id, "", 0)
                  EXCEPT !.pc = "findByIdAndDelete"]
     IN IF Forbidden(u)
        THEN reqs' = Append(reqs, Respond(rq, 403)) /\ UNCHANGED User
        ELSE IF ~ok
        THEN reqs' = Append(reqs, Catch(rq)) /\ UNCHANGED User
        ELSE /\ reqs' = Append(reqs, Respond(rq, 200))
             /\ User' = [x \in DOMAIN User \ {id} |-> User[x]]
  /\ UNCHANGED <<Campaign, Transaction, campaignIds, uuidCalls, rooms, delivered, joins>>

\* GET /admin/campaigns: Campaign.find().populate("owner", "username")
AdminGetCampaigns(u, ok) ==
  /\ CanReceive
  /\ LET rq == [NewReq("GET /admin/campaigns", u, 0, "", 0) EXCEPT !.pc = "find"]
     IN reqs' = Append(reqs, IF Forbidden(u) THEN Respond(rq, 403)
                             ELSE IF ~ok THEN Catch(rq) ELSE Respond(rq, 200))
  /\ UNCHANGED <<User, Campaign, Transaction, campaignIds, uuidCalls, rooms, delivered, joins>>

\* A deletion that also removes the campaign's Transaction records.
AdminDeleteCampaignCascade(u, id, ok) ==
  /\ CanReceive
  /\ ~Forbidden(u) /\ ok
  /\ reqs' = Append(reqs, Respond([NewReq("DELETE /admin/campaigns/:id", u, id, "", 0)
                                     EXCEPT !.pc = "findByIdAndDelete"], 200))
  /\ Campaign' = [c \in DOMAIN Campaign \ {id} |-> Campaign[c]]
  /\ Transaction' = SelectSeq(Transaction, LAMBDA t : t.campaign # id)
  /\ UNCHANGED <<User, campaignIds, uuidCalls, rooms, delivered, joins>>

\* DELETE /admin/campaigns/:id: Campaign.findByIdAndDelete(req.params.id)
AdminDeleteCampaign(u, id, ok) ==
  /\ CanReceive
  /\ LET rq == [NewReq("DELETE /admin/campaigns/:id", u, id, "", 0)
                  EXCEPT !.pc = "findByIdAndDelete"]
     IN IF Forbidden(u)
        THEN reqs' = Append(reqs, Respond(rq, 403)) /\ UNCHANGED Campaign
        ELSE IF ~ok
        THEN reqs' = Append(reqs, Catch(rq)) /\ UNCHANGED Campaign
        ELSE /\ reqs' = Append(reqs, Respond(rq, 200))
             /\ Campaign' = [c \in DOMAIN Campaign \ {id} |-> Campaign[c]]
  /\ UNCHANGED <<User, Transaction, campaignIds, uuidCalls, rooms, delivered, joins>>

\* -------------------------------------------------------------- Socket.IO

RECURSIVE SumLen(_, _)
SumLen(f, S) ==
  IF S = {} THEN 0
  ELSE LET s == CHOOSE x \in S : TRUE IN Len(f[s]) + SumLen(f, S \ {s})

SocketEvents == Cardinality(DOMAIN rooms) + SumLen(joins, DOMAIN joins)

\* io.on("connection", (socket) => ...): a client connects.  (Socket.IO also
\* puts the socket in a room named by its own socket id, which is no user
\* id and to which the server never emits.)
Connection(s) ==
  /\ s \notin DOMAIN rooms
  /\ SocketEvents < MaxSocketEvents
  /\ rooms' = [x \in DOMAIN rooms \cup {s} |-> IF x = s THEN {} ELSE rooms[x]]
  /\ delivered' = [x \in DOMAIN rooms \cup {s} |-> IF x = s THEN {} ELSE delivered[x]]
  /\ joins' = [x \in DOMAIN rooms \cup {s} |-> IF x = s THEN <<>> ELSE joins[x]]
  /\ UNCHANGED <<User, Campaign, Transaction, campaignIds, uuidCalls, reqs>>

\* A join that leaves the rooms joined before.
JoinRoomSwitch(rs, userId) == {userId}

\* socket.join(userId): the rooms of the socket after the call.
JoinRoom(rs, userId) == rs \cup {userId}

\* socket.on("join", (userId) => { socket.join(userId) })
Join(s, userId) ==
  /\ s \in DOMAIN rooms
  /\ SocketEvents < MaxSocketEvents
  /\ rooms' = [rooms EXCEPT ![s] = JoinRoom(@, userId)]
  /\ joins' = [joins EXCEPT ![s] = Append(@, userId)]
  /\ UNCHANGED <<User, Campaign, Transaction, campaignIds, uuidCalls, reqs, delivered>>

\* --------------------------------------------------------- specifications

\* Three registered users (a backer, a campaign owner, an admin), no
\* campaign, no transaction, no request, no client connected.
Init ==
  /\ User = [u \in UserIds |-> [backedCampaigns |-> <<>>]]
  /\ Campaign = <<>>
  /\ Transaction = <<>>
  /\ campaignIds = 0
  /\ uuidCalls = 0
  /\ reqs = <<>>
  /\ rooms = <<>>
  /\ delivered = <<>>
  /\ joins = <<>>

\* No request is being handled: the next one does not overlap another.
Quiet == \A r \in 1..Len(reqs) : reqs[r].pc = "done"

\* The steps of the handlers that are past their first store operation.
Continue(r) ==
  \/ PostCampaignsCreate(r)
  \/ PostTransactionsSave(r)
  \/ PostTransactionsCreate(r)
  \/ PostTransactionsFindUser(r)
  \/ PostTransactionsSaveUser(r)

\* The contribution workflow under load: campaign creations (by the
\* campaign owner, under one title) and contributions (by the backer and
\* the campaign owner) interleaved at their awaits, any store operation of
\* which may fail, and the admin's deletions of the records they use.
Next ==
  \/ PostCampaignsFindOne(2, "T1", TRUE, TRUE)
  \/ \E u \in {1, 2}, cid \in KnownIds, a \in Amounts, ok \in BOOLEAN :
       PostTransactionsFindById(u, cid, a, ok)
  \/ \E r \in 1..MaxReq : Continue(r)
  \/ \E r \in 1..MaxReq : StoreError(r)
  \/ \E id \in {1, 2} : AdminDeleteUser(3, id, TRUE)
  \/ \E id \in DOMAIN Campaign : AdminDeleteCampaign(3, id, TRUE)

Spec == Init /\ [][Next]_vars

\* Requests served one after another, none of whose store operations fails.
SeqNext ==
  \/ \E u \in UserIds, t \in Titles, valid \in BOOLEAN :
       Quiet /\ PostCampaignsFindOne(u, t, valid, TRUE)
  \/ \E u \in UserIds, cid \in KnownIds, a \in Amounts :
       Quiet /\ PostTransactionsFindById(u, cid, a, TRUE)
  \/ \E r \in 1..MaxReq : Continue(r)

SeqSpec == Init /\ [][SeqNext]_vars

\* The admin routes, called by every role, between campaign creations and
\* contributions served one after another.
AdminNext ==
  \/ \E t \in Titles : Quiet /\ PostCampaignsFindOne(2, t, TRUE, TRUE)
  \/ \E u \in {1, 2}, cid \in DOMAIN Campaign, a \in Amounts :
       Quiet /\ PostTransactionsFindById(u, cid, a, TRUE)
  \/ \E r \in 1..MaxReq : Continue(r)
  \/ \E u \in UserIds, ok \in BOOLEAN : AdminGetUsers(u, ok)
  \/ \E u \in UserIds, id \in UserIds, ok \in BOOLEAN : AdminDeleteUser(u, id, ok)
  \/ \E u \in UserIds, ok \in BOOLEAN : AdminGetCampaigns(u, ok)
  \/ \E u \in UserIds, id \in KnownIds, ok \in BOOLEAN : AdminDeleteCampaign(u, id, ok)

AdminSpec == Init /\ [][AdminNext]_vars

\* The notification layer: clients connect and join rooms while campaigns
\* are created and contributions made, one after another.
SocketNext ==
  \/ \E s \in Sockets : Connection(s)
  \/ \E s \in Sockets, u \in UserIds : Join(s, u)
  \/ \E u \in {2, 3} : Quiet /\ PostCampaignsFindOne(u, "T1", TRUE, TRUE)
  \/ \E cid \in DOMAIN Campaign : Quiet /\ PostTransactionsFindById(1, cid, 1, TRUE)
  \/ \E r \in 1..MaxReq : Continue(r)

SocketSpec == Init /\ [][SocketNext]_vars

\* ------------------------------------------------------------ properties

TxReqs == {r \in 1..Len(reqs) : reqs[r].route = "POST /transactions"}

\* The Transaction records request r created.
TxOf(r) == {i \in 1..Len(Transaction) : Transaction[i].req = r}

HasTx(r) == TxOf(r) # {}

\* The Transaction records of campaign c.
TxOn(c) == {i \in 1..Len(Transaction) : Transaction[i].campaign = c}

RECURSIVE SumAmounts(_)
SumAmounts(R) ==
  IF R = {} THEN 0
  ELSE LET r == CHOOSE x \in R : TRUE IN reqs[r].amount + SumAmounts(R \ {r})

\* The contributions to campaign c that were answered 201.
Succeeded(c) == {r \in TxReqs : reqs[r].id = c /\ reqs[r].status = 201}

\* The contributions to campaign c whose campaign.save() succeeded.
SavedOn(c) == {r \in TxReqs : reqs[r].id = c /\ reqs[r].saved}

\* C1: after any sequence of non-overlapping successful contributions to a
\* campaign, its raisedAmount is its initial value (0) plus the sum of their
\* amounts, there is one Transaction record per contribution, and the
\* payment identifiers are pairwise distinct.
C1_SequentialTotals ==
  Quiet =>
    /\ \A c \in DOMAIN Campaign :
         /\ Campaign[c].raisedAmount = SumAmounts(Succeeded(c))
         /\ Cardinality(TxOn(c)) = Cardinality(Succeeded(c))
         /\ \A r \in Succeeded(c) : Cardinality(TxOf(r)) = 1
    /\ \A i, j \in 1..Len(Transaction) :
         i # j => Transaction[i].paymentId # Transaction[j].paymentId

\* C1: two contributions, of 1 and of 2, to one campaign have been served.
C1_Witness ==
  /\ Quiet
  /\ \E c \in DOMAIN Campaign :
       /\ Cardinality(Succeeded(c)) = 2
       /\ Campaign[c].raisedAmount = 3
       /\ Cardinality(TxOn(c)) = 2

\* C2 as stated: a finished contribution request has created a Transaction
\* record if and only if its campaign lookup found the campaign.
C2_CreatedIffFound ==
  \A r \in TxReqs :
    reqs[r].pc = "done" => (HasTx(r) <=> reqs[r].found)

\* C2 as amended: a finished contribution request has created a Transaction
\* record (exactly one) if and only if its lookup found the campaign and
\* neither campaign.save() nor Transaction.create() failed; a failure of a
\* later operation leaves the record in place.
C2_CreatedIffSaved ==
  \A r \in TxReqs :
    /\ Cardinality(TxOf(r)) <= 1
    /\ HasTx(r) => reqs[r].found
    /\ reqs[r].pc = "done" =>
         (HasTx(r) <=> (reqs[r].found /\ reqs[r].failedAt \notin {"save", "createTx"}))

\* C2: one request found its campaign, failed at campaign.save() and
\* created nothing, and one found its campaign, created its record and then
\* failed at the user update.
C2_Witness ==
  /\ \E r \in TxReqs :
       reqs[r].found /\ reqs[r].failedAt = "save" /\ reqs[r].pc = "done" /\ ~HasTx(r)
  /\ \E r \in TxReqs :
       reqs[r].found /\ reqs[r].failedAt \in {"findUser", "saveUser"} /\ HasTx(r)

\* C3: whenever two contributions to a campaign loaded the same raisedAmount
\* and both saved the campaign, the stored raisedAmount is less than the sum
\* of the amounts saved: an increment is lost.
C3_LostUpdate ==
  \A c \in DOMAIN Campaign :
    \A r1, r2 \in SavedOn(c) :
      (r1 # r2 /\ reqs[r1].doc.loaded = reqs[r2].doc.loaded)
        => Campaign[c].raisedAmount < SumAmounts(SavedOn(c))

\* C3: two contributions to a campaign both loaded raisedAmount 0, both were
\* answered 201, two Transaction records exist, and raisedAmount holds only
\* one of the two amounts.
C3_Witness ==
  \E c \in DOMAIN Campaign :
    \E r1, r2 \in Succeeded(c) :
      /\ r1 # r2
      /\ reqs[r1].doc.loaded = 0 /\ reqs[r2].doc.loaded = 0
      /\ HasTx(r1) /\ HasTx(r2)
      /\ Cardinality(TxOn(c)) = 2
      /\ Campaign[c].raisedAmount = reqs[r1].amount
      /\ Campaign[c].raisedAmount < reqs[r1].amount + reqs[r2].amount

\* C4: a campaign's raisedAmount is 0 when the campaign is created and no
\* step decreases it.
C4_NeverDecreases ==
  [][ /\ \A c \in DOMAIN Campaign' \ DOMAIN Campaign : Campaign'[c].raisedAmount = 0
      /\ \A c \in DOMAIN Campaign \cap DOMAIN Campaign' :
           Campaign'[c].raisedAmount >= Campaign[c].raisedAmount ]_vars

\* A contribution request answers 500 in this step.
Fails(r) ==
  /\ r \in 1..Len(reqs') /\ reqs'[r].route = "POST /transactions"
  /\ reqs'[r].status = 500
  /\ (r > Len(reqs) \/ reqs[r].status # 500)

\* C5 as stated: a failure between the steps leaves each of the two partial
\* states: (a) a failed Transaction.create leaves the saved raisedAmount
\* without a Transaction record, and (b) a failed campaign.save leaves a
\* Transaction record without the saved raisedAmount.
C5_BothPartialStates ==
  \A r \in TxReqs :
    (reqs[r].pc = "done" /\ reqs[r].found) =>
      /\ reqs[r].failedAt = "createTx" => (reqs[r].saved /\ ~HasTx(r))
      /\ reqs[r].failedAt = "save" => (~reqs[r].saved /\ HasTx(r))

\* C5 as amended: no step in which a contribution fails changes a record
\* (nothing is rolled back), and a Transaction record is created only by a
\* request whose campaign.save() succeeded before: of the two partial
\* states only (a) arises.
C5_NoRollbackSavedFirst ==
  [][ /\ (\E r \in 1..MaxReq : Fails(r)) => UNCHANGED <<User, Campaign, Transaction>>
      /\ \A i \in 1..Len(Transaction') :
           i > Len(Transaction) => reqs[Transaction'[i].req].saved ]_vars

\* C5: partial state (a): a contribution failed at Transaction.create, the
\* campaign holds the raisedAmount it saved and no Transaction record of
\* the request exists.
C5_Witness ==
  \E r \in TxReqs :
    /\ reqs[r].failedAt = "createTx" /\ reqs[r].status = 500
    /\ reqs[r].id \in DOMAIN Campaign
    /\ Campaign[reqs[r].id].raisedAmount = reqs[r].doc.loaded + reqs[r].amount
    /\ ~HasTx(r)

\* C6: no user occurs twice in a campaign's supporters, no campaign twice in
\* a user's backedCampaigns, and after a completed contribution by the user
\* to the campaign each occurs exactly once.
C6_NoDuplicates ==
  \A u \in DOMAIN User, c \in DOMAIN Campaign :
    /\ Count(Campaign[c].supporters, u) <= 1
    /\ Count(User[u].backedCampaigns, c) <= 1
    /\ (\E r \in Succeeded(c) : reqs[r].user = u) =>
         /\ Count(Campaign[c].supporters, u) = 1
         /\ Count(User[u].backedCampaigns, c) = 1

\* C7: no two Campaign records have the same owner and the same title.
C7_TitleUniquePerOwner ==
  \A c1, c2 \in DOMAIN Campaign :
    (Campaign[c1].owner = Campaign[c2].owner /\ Campaign[c1].title = Campaign[c2].title)
      => c1 = c2

AdminRoutes == {"GET /admin/users", "DELETE /admin/users/:id",
                "GET /admin/campaigns", "DELETE /admin/campaigns/:id"}

\* C8: a request to an admin route by a caller whose role is not "admin" is
\* answered 403 at once and changes neither the User nor the Campaign
\* records, whatever id it names.
C8_NonAdminForbidden ==
  [][ Len(reqs') > Len(reqs) =>
        LET rq == reqs'[Len(reqs')]
        IN (rq.route \in AdminRoutes /\ Role(rq.user) # "admin") =>
             /\ rq.status = 403 /\ rq.pc = "done"
             /\ UNCHANGED <<User, Campaign, Transaction>> ]_vars

\* C8: a campaign owner's DELETE /admin/campaigns/:id naming a campaign that
\* exists was answered 403, and the campaign is still there.
C8_Witness ==
  \E r \in 1..Len(reqs) :
    /\ reqs[r].route = "DELETE /admin/campaigns/:id"
    /\ Role(reqs[r].user) = "campaignOwner"
    /\ reqs[r].status = 403
    /\ reqs[r].id \in DOMAIN Campaign

\* C9: a step that removes a Campaign or a User record removes that one
\* record and changes no other record and no Transaction record; no step
\* removes or changes a Transaction record.
C9_NoCascade ==
  [][ /\ Len(Transaction') >= Len(Transaction)
      /\ SubSeq(Transaction', 1, Len(Transaction)) = Transaction
      /\ LET goneC == DOMAIN Campaign \ DOMAIN Campaign'
             goneU == DOMAIN User \ DOMAIN User'
         IN (goneC # {} \/ goneU # {}) =>
              /\ Cardinality(goneC) + Cardinality(goneU) = 1
              /\ Transaction' = Transaction
              /\ \A c \in DOMAIN Campaign' : c \in DOMAIN Campaign /\ Campaign'[c] = Campaign[c]
              /\ \A u \in DOMAIN User' : u \in DOMAIN User /\ User'[u] = User[u] ]_vars

\* C9: an admin deleted a campaign, and a Transaction record that refers to
\* it is still there.
C9_Witness ==
  /\ \E r \in 1..Len(reqs) :
       reqs[r].route = "DELETE /admin/campaigns/:id" /\ reqs[r].status = 200
  /\ \E i \in 1..Len(Transaction) :
       Transaction[i].campaign \notin DOMAIN Campaign

\* The user ids a socket was sent "new_backing" events for.
Addressees(s) == {e.to : e \in {x \in delivered[s] : x.event = "new_backing"}}

Range(f) == {f[i] : i \in DOMAIN f}

\* C10 as stated: every connected client is in at most one user channel and
\* receives "new_backing" events addressed to at most one user id.
C10_AtMostOneChannel ==
  \A s \in DOMAIN rooms :
    /\ Cardinality(rooms[s]) <= 1
    /\ Cardinality(Addressees(s)) <= 1

\* C10 as amended: every connected client is in exactly the channels it
\* sent "join" for (a join leaves no channel), and receives "new_backing"
\* events addressed only to those user ids.
C10_ChannelsAreJoins ==
  \A s \in DOMAIN rooms :
    /\ rooms[s] = Range(joins[s])
    /\ Addressees(s) \subseteq rooms[s]

\* C10: a client joined the channel of user 1 and then that of user 2, and
\* then received a "new_backing" event addressed to user 2.
C10_Witness ==
  \E s \in DOMAIN rooms :
    /\ joins[s] = <<1, 2>>
    /\ rooms[s] = {1, 2}
    /\ 2 \in Addressees(s)

====
